---- MODULE Spec2Model ----
(***************************************************************************)
(* Model of stm32h5xx_util_i3c.c: the I3C controller and target timing     *)
(* computations.  Both functions are pure arithmetic over uint32_t (with   *)
(* one uint64_t division for each clock period), so the model carries an   *)
(* exact 32-bit unsigned arithmetic.  TLC integers are 32-bit signed, so   *)
(* an unsigned machine word is held as a pair <<hi, lo>> of 16-bit halves  *)
(* (value = hi * 2^16 + lo); a uint64_t intermediate uses the same pair    *)
(* with a wider hi.                                                        *)
(***************************************************************************)
EXTENDS Integers, Sequences, FiniteSets, TLC

\* ------------------------------------------------------------------------
\* Machine words
\* ------------------------------------------------------------------------
B16 == 2^16
B15 == 2^15
B8  == 2^8

\* The word of a small natural number (n < 2^31).
U(n) == <<n \div B16, n % B16>>

\* Carry/borrow normalisation of a pair whose low half left 0..B16-1.
WNorm(hi, lo) == <<hi + (lo \div B16), lo % B16>>

\* (uint32_t) cast: keep the low 32 bits.
Trunc32(w) == <<w[1] % B16, w[2]>>

\* (uint8_t) cast of a word, as a plain number 0..255.
Trunc8(w) == w[2] % B8

WAdd(a, b) == WNorm(a[1] + b[1], a[2] + b[2])
\* a - b for a >= b
WSub(a, b) == WNorm(a[1] - b[1] - 1, a[2] - b[2] + B16)

WLt(a, b) == (a[1] < b[1]) \/ (a[1] = b[1] /\ a[2] < b[2])
WLe(a, b) == ~WLt(b, a)
WGt(a, b) == WLt(b, a)
WGe(a, b) == ~WLt(a, b)

IsZero(a) == a[1] = 0 /\ a[2] = 0

\* uint32_t + and - (wrap modulo 2^32)
U32Add(a, b) == Trunc32(WAdd(a, b))
U32Sub(a, b) == Trunc32(WNorm(a[1] - b[1] - 1 + B16, a[2] - b[2] + B16))

\* Full product of two 16-bit halves, built from 16x8-bit partial products.
Mul16(x, y) ==
  LET p0 == x * (y % B8)
      p1 == x * (y \div B8)
  IN  WNorm(p1 \div B8, ((p1 % B8) * B8) + p0)

\* uint32_t * (wrap modulo 2^32)
U32Mul(a, b) ==
  LET ll    == Mul16(a[2], b[2])
      cross == Mul16(a[1], b[2])[2] + Mul16(a[2], b[1])[2]
  IN  <<(ll[1] + cross) % B16, ll[2]>>

\* One step of long division in base 2^8 by a divisor below 2^23: the
\* remainder so far r (r < d) takes the next digit.
ShortStep(r, digit, d) == <<((r * B8) + digit) \div d, ((r * B8) + digit) % d>>

\* n / d for d < 2^23 (a plain number) and n < 2^47: six base-2^8 digits.
ShortDiv(n, d) ==
  LET s5 == ShortStep(0, n[1] \div (2^24), d)
      s4 == ShortStep(s5[2], (n[1] \div B16) % B8, d)
      s3 == ShortStep(s4[2], (n[1] \div B8) % B8, d)
      s2 == ShortStep(s3[2], n[1] % B8, d)
      s1 == ShortStep(s2[2], n[2] \div B8, d)
      s0 == ShortStep(s1[2], n[2] % B8, d)
  IN  <<(s5[1] * (2^24)) + (s4[1] * B16) + (s3[1] * B8) + s2[1], (s1[1] * B8) + s0[1]>>

\* Up to four subtractions of d bring the remainder r below d.
Correct(q, r, d) ==
  IF WLt(r, d) THEN <<q, r>>
  ELSE IF WLt(WSub(r, d), d) THEN <<q + 1, WSub(r, d)>>
  ELSE IF WLt(WSub(WSub(r, d), d), d) THEN <<q + 2, WSub(WSub(r, d), d)>>
  ELSE IF WLt(WSub(WSub(WSub(r, d), d), d), d) THEN <<q + 3, WSub(WSub(WSub(r, d), d), d)>>
  ELSE <<q + 4, WSub(WSub(WSub(WSub(r, d), d), d), d)>>

\* One step of long division in base 2^8 by a divisor d >= 2^23: the digit
\* is estimated from the high halves (at most 3 too low) and then corrected.
LongStep(r, digit, d) ==
  LET v == WNorm((r[1] * B8) + (r[2] \div B8), ((r[2] % B8) * B8) + digit)
      e == v[1] \div (d[1] + 1)
  IN  Correct(e, WSub(v, WNorm(e * d[1], e * d[2])), d)

\* n / d for 2^23 <= d < 2^32 and n < 2^47: the quotient has three digits.
LongDiv(n, d) ==
  LET s2 == LongStep(U(n[1] \div B8), n[1] % B8, d)
      s1 == LongStep(s2[2], n[2] \div B8, d)
      s0 == LongStep(s1[2], n[2] % B8, d)
  IN  <<s2[1], (s1[1] * B8) + s0[1]>>

\* Unsigned integer division n / d (d # 0), truncating.  Operands below 2^31
\* divide directly; wider ones (n < 2^47, d < 2^32) by long division.
WDiv(n, d) ==
  IF n[1] < B15 /\ d[1] < B15
  THEN U(((n[1] * B16) + n[2]) \div ((d[1] * B16) + d[2]))
  ELSE IF d[1] < 2^7 THEN ShortDiv(n, (d[1] * B16) + d[2])
  ELSE LongDiv(n, d)

\* ------------------------------------------------------------------------
\* Private macros and constants
\* ------------------------------------------------------------------------
DIV_ROUND_CLOSEST(x, d) == WDiv(U32Add(x, WDiv(d, U(2))), d)

\* (uint64_t)100000000000 = 1525878 * 2^16 + 59392
SEC210PSEC   == <<1525878, 59392>>
TI3CH_MIN    == 3200
TI3CH_OD_MAX == 4100
TI3CL_OD_MIN == 20000
TFMPL_OD_MIN == 50000
TFML_OD_MIN  == 130000
TFM_MIN      == 250000
TSM_MIN      == 1000000
TI3C_CAS_MIN == 3840
TCAPA        == 35000

\* @ref I3C_BUS_TYPE and the SDA_HD bit position come from the driver
\* headers, which the utility includes.
I3C_PURE_I3C_BUS        == 0
I3C_MIXED_BUS           == 1
I3C_TIMINGR1_SDA_HD_Pos == 28

\* ------------------------------------------------------------------------
\* Steps of I3C_CtrlTimingComputation
\* ------------------------------------------------------------------------

\* "Verify Parameters": TRUE when status is set to ERROR.
VerifyParameters(clk, i3c, i2c, bus) ==
  \/ ((IsZero(clk) \/ IsZero(i3c)) /\ bus = I3C_PURE_I3C_BUS)
  \/ ((IsZero(clk) \/ IsZero(i3c) \/ IsZero(i2c)) /\ bus = I3C_MIXED_BUS)

\* Period of a frequency in 10 ps units: 64-bit round-half-up division,
\* then the (uint32_t) cast.  freq # 0.
Period64(freq) == WDiv(WAdd(SEC210PSEC, WDiv(freq, U(2))), freq)
ClockPeriod(freq) == Trunc32(Period64(freq))

\* (x + 1U) * ti3cclk
Duration(x, t) == U32Mul(U32Add(x, U(1)), t)

\* DIV_ROUND_CLOSEST(DIV_ROUND_CLOSEST(period * percent, ti3cclk), 100U) - 1U
Apportion(period, percent, t) ==
  U32Sub(DIV_ROUND_CLOSEST(DIV_ROUND_CLOSEST(U32Mul(period, U(percent)), t), U(100)), U(1))

\* if (((x + 1U) * ti3cclk) < floor) x += 1U;
BumpBelow(x, t, floor) == IF WLt(Duration(x, t), U(floor)) THEN U32Add(x, U(1)) ELSE x

\* I3C SCL high and push-pull low, pure I3C bus.
SclPure(pp, duty, t) ==
  LET first == Apportion(pp, duty, t)
  IN  IF WLt(Duration(first, t), U(TI3CH_MIN))
      THEN LET h == BumpBelow(U32Sub(DIV_ROUND_CLOSEST(U(TI3CH_MIN), t), U(1)), t, TI3CH_MIN)
           IN  [sclhi3c |-> h,
                scllpp  |-> U32Sub(U32Sub(DIV_ROUND_CLOSEST(pp, t), U32Add(h, U(1))), U(1))]
      ELSE [sclhi3c |-> BumpBelow(Apportion(pp, duty, t), t, TI3CH_MIN),
            scllpp  |-> Apportion(pp, 100 - duty, t)]

\* I3C SCL high and push-pull low, mixed bus.
SclMixed(pp, t) ==
  LET first == U32Sub(DIV_ROUND_CLOSEST(U(TI3CH_OD_MAX), t), U(1))
      h == IF WLt(Duration(first, t), U(TI3CH_MIN)) THEN U32Add(first, U(1))
           ELSE IF WGt(Duration(first, t), U(TI3CH_OD_MAX)) THEN WDiv(U(TI3CH_OD_MAX), t)
           ELSE first
  IN  [sclhi3c |-> h,
       scllpp  |-> U32Sub(DIV_ROUND_CLOSEST(U32Sub(pp, Duration(h, t)), t), U(1))]

\* FrequencyCorrection with the second check comparing the low phase alone
\* (sclhi3c left out of the realized period).
FrequencyCorrection_LowOnly(scllpp, sclhi3c, pp, t) ==
  LET ideal_scllpp == U32Sub(pp, Duration(sclhi3c, t))
      limit == U32Add(U32Add(ideal_scllpp, WDiv(t, U(2))), U(1))
      dec   == WGe(Duration(scllpp, t), limit)
      low1  == IF dec THEN U32Sub(scllpp, U(1)) ELSE scllpp
      inc   == WLt(Duration(low1, t), limit)
  IN  [scllpp |-> IF inc THEN U32Add(low1, U(1)) ELSE low1, dec |-> dec, inc |-> inc]

\* The two sequential checks on scllpp against ideal_scllpp.
FrequencyCorrection(scllpp, sclhi3c, pp, t) ==
  LET ideal_scllpp == U32Sub(pp, Duration(sclhi3c, t))
      limit == U32Add(U32Add(ideal_scllpp, WDiv(t, U(2))), U(1))
      dec   == WGe(Duration(scllpp, t), limit)
      low1  == IF dec THEN U32Sub(scllpp, U(1)) ELSE scllpp
      inc   == WLt(U32Mul(U32Add(U32Add(U32Add(low1, sclhi3c), U(1)), U(1)), t), limit)
  IN  [scllpp |-> IF inc THEN U32Add(low1, U(1)) ELSE low1, dec |-> dec, inc |-> inc]

\* Open-drain low and I2C high, pure I3C bus.
OpenDrainPure(scllpp, pp, t) ==
  LET first == IF WLt(pp, U(TI3CL_OD_MIN))
               THEN BumpBelow(U32Sub(DIV_ROUND_CLOSEST(U(TI3CL_OD_MIN), t), U(1)), t, TI3CL_OD_MIN)
               ELSE scllpp
  IN  [scllod  |-> IF WLt(Duration(first, t), U(TCAPA))
                   THEN U32Add(DIV_ROUND_CLOSEST(U(TCAPA), t), U(1))
                   ELSE first,
       sclhi2c |-> U(0)]

\* if (((scllod + 1U) * ti3cclk) < floor) scllod = DIV_ROUND_CLOSEST(floor, ti3cclk) - 1U;
ClampLow(scllod, t, floor) ==
  IF WLt(Duration(scllod, t), U(floor))
  THEN U32Sub(DIV_ROUND_CLOSEST(U(floor), t), U(1))
  ELSE scllod

\* Open-drain low and I2C high, mixed bus.
OpenDrainMixed(od, duty, t) ==
  LET first == Apportion(od, 100 - duty, t)
      low   == IF WLt(od, U(TFM_MIN)) THEN ClampLow(first, t, TFMPL_OD_MIN)
               ELSE ClampLow(first, t, TFML_OD_MIN)
  IN  [scllod  |-> low,
       sclhi2c |-> U32Sub(DIV_ROUND_CLOSEST(U32Sub(od, Duration(low, t)), t), U(1))]

\* Divisor and result of the "Clock After Start" division (divisor # 0).
FreeDivisor(t) == U32Mul(U(2), t)
BusFree(bus, scllod, t) ==
  IF bus = I3C_PURE_I3C_BUS
  THEN U32Add(DIV_ROUND_CLOSEST(U(TI3C_CAS_MIN + TCAPA), FreeDivisor(t)), U(1))
  ELSE DIV_ROUND_CLOSEST(U32Add(Duration(scllod, t), U(TCAPA)), FreeDivisor(t))

SdaHold(t) == IF WGt(t, U(600)) THEN 0 ELSE 1

\* OneUs with the offset off by one.
OneUs_OffByOne(t) == U32Sub(DIV_ROUND_CLOSEST(U(100000), t), U(1))

\* 1 microsecond reference
OneUs(t) == U32Sub(DIV_ROUND_CLOSEST(U(100000), t), U(2))

Over8Bits(x) == WGt(x, U(255))

\* RangeGate with the oneus test left out.
RangeGate_NoOneUs(scllpp, sclhi3c, scllod, sclhi2c, free, oneus) ==
  \/ Over8Bits(scllpp) \/ Over8Bits(sclhi3c) \/ Over8Bits(scllod)
  \/ Over8Bits(sclhi2c) \/ Over8Bits(free)

\* The range gate: TRUE when status is set to ERROR.
RangeGate(scllpp, sclhi3c, scllod, sclhi2c, free, oneus) ==
  \/ Over8Bits(scllpp) \/ Over8Bits(sclhi3c) \/ Over8Bits(scllod)
  \/ Over8Bits(sclhi2c) \/ Over8Bits(free) \/ Over8Bits(oneus)

\* ------------------------------------------------------------------------
\* Division by zero
\* ------------------------------------------------------------------------
\* An integer division by zero is undefined: the build either traps or
\* carries on with some quotient (all zeros or all ones after the cast).
DivZeroOutcomes == {"trap", "zero", "ones"}
DivZeroValue(o) == IF o = "zero" THEN <<0, 0>> ELSE <<B16 - 1, B16 - 1>>
\* The outcomes to choose from at a division whose divisor is zero or not.
Outcomes(divisorIsZero) == IF divisorIsZero THEN DivZeroOutcomes ELSE {"defined"}

\* ------------------------------------------------------------------------
\* State
\* ------------------------------------------------------------------------
VARIABLES
  clockSrcFreq, i3cFreq, i2cFreq,  \* uint32_t arguments, as words
  dutyCycle, busType,              \* uint32_t arguments, as small numbers
  pConfig,                         \* the caller's LL_I3C_CtrlBusConfTypeDef
  pTgtConfig,                      \* the caller's LL_I3C_TgtBusConfTypeDef
  pc,                              \* position in the function called
  status,                          \* "none" before the call, then the local status
  loc,                             \* the other locals of the call
  divByZero                        \* a division was evaluated with a zero divisor

vars == <<clockSrcFreq, i3cFreq, i2cFreq, dutyCycle, busType, pConfig, pTgtConfig,
          pc, status, loc, divByZero>>

args == <<clockSrcFreq, i3cFreq, i2cFreq, dutyCycle, busType>>

\* Locals before any assignment.  scllpp0 is scllpp as the SCL computation
\* leaves it before the two correction checks; dec and inc tell which of the
\* two checks fired.
NoLocals ==
  [ti3cclk |-> U(0), ti3c_pp_min |-> U(0), ti2c_od_min |-> U(0),
   sclhi3c |-> U(0), scllpp0 |-> U(0), scllpp |-> U(0), scllod |-> U(0),
   sclhi2c |-> U(0), free |-> U(0), oneus |-> U(0), sdahold |-> 0,
   dec |-> FALSE, inc |-> FALSE]

\* ------------------------------------------------------------------------
\* Inputs
\* ------------------------------------------------------------------------
MaxBusType   == 2
MaxPriorFill == 1

\* 4 GHz, above 2^31, is the word <<61035, 10240>>.
ClockSrcFreqs == {U(0), U(1000), U(1500000), U(2000000), U(4000000), U(16000000),
                  U(24000000), U(48000000), U(90909091), U(200000000), U(250000000),
                  U(300000000), U(1000000000), <<61035, 10240>>}
I3cFreqs      == {U(0), U(1000), U(1987), U(100000), U(400000), U(3000000),
                  U(8000000), U(12500000), U(100000000)}
I2cFreqs      == {U(0), U(50000), U(400000), U(1000000)}
DutyCycles    == {0, 6, 10, 30, 45, 50, 51, 60}
BusTypes      == 0 .. MaxBusType

\* What the caller's records hold before the call.
PriorCtrlConfig(k) ==
  [SCLPPLowDuration |-> 255 - k, SCLI3CHighDuration |-> 255 - k,
   SCLODLowDuration |-> 255 - k, SCLI2CHighDuration |-> 255 - k,
   BusFreeDuration |-> 255 - k, BusIdleDuration |-> 255 - k, SDAHoldTime |-> k]
PriorTgtConfig(k) == [BusAvailableDuration |-> 255 - k]

Init ==
  /\ clockSrcFreq \in ClockSrcFreqs
  /\ i3cFreq \in I3cFreqs
  /\ i2cFreq \in I2cFreqs
  /\ dutyCycle \in DutyCycles
  /\ busType \in BusTypes
  /\ \E k \in 0 .. MaxPriorFill :
       /\ pConfig = PriorCtrlConfig(k)
       /\ pTgtConfig = PriorTgtConfig(k)
  /\ pc = "ready"
  /\ status = "none"
  /\ loc = NoLocals
  /\ divByZero = FALSE

\* ------------------------------------------------------------------------
\* I3C_CtrlTimingComputation, block by block
\* ------------------------------------------------------------------------
\* A block that ends the computation: nothing below it runs but the return.
CtrlEnds(st) == status' = st /\ pc' = "ctrl_return"

\* A division by zero that traps: the call never returns.
Trap(where) ==
  /\ status' = "TRAP"
  /\ pc' = where
  /\ divByZero' = TRUE
  /\ UNCHANGED <<args, pConfig, pTgtConfig, loc>>

\* ErrorStatus status = SUCCESS; ... Verify Parameters
CtrlVerifyParameters ==
  /\ pc = "ready"
  /\ IF VerifyParameters(clockSrcFreq, i3cFreq, i2cFreq, busType)
     THEN CtrlEnds("ERROR")
     ELSE status' = "SUCCESS" /\ pc' = "ctrl_clock_period"
  /\ UNCHANGED <<args, pConfig, pTgtConfig, loc, divByZero>>

\* Period Clock source, and the dutyCycle / ti3cclk check
CtrlClockPeriod ==
  /\ pc = "ctrl_clock_period"
  /\ \E o \in Outcomes(IsZero(clockSrcFreq)) :
       IF o = "trap" THEN Trap("ctrl_trap")
       ELSE \E t \in {IF o = "defined" THEN ClockPeriod(clockSrcFreq) ELSE DivZeroValue(o)} :
              /\ loc' = [loc EXCEPT !.ti3cclk = t]
              /\ divByZero' = (o # "defined")
              /\ IF dutyCycle > 50 \/ IsZero(t)
                 THEN CtrlEnds("ERROR")
                 ELSE pc' = "ctrl_bus_periods" /\ UNCHANGED status
              /\ UNCHANGED <<args, pConfig, pTgtConfig>>

\* I3C: Push pull period; I2C: Open drain period; the Standard Mode check
CtrlBusPeriods ==
  /\ pc = "ctrl_bus_periods"
  /\ \E o3 \in Outcomes(IsZero(i3cFreq)), o2 \in Outcomes(IsZero(i2cFreq)) :
       IF o3 = "trap" \/ o2 = "trap" THEN Trap("ctrl_trap")
       ELSE \E pp \in {IF o3 = "defined" THEN ClockPeriod(i3cFreq) ELSE DivZeroValue(o3)},
               od \in {IF o2 = "defined" THEN ClockPeriod(i2cFreq) ELSE DivZeroValue(o2)} :
              /\ loc' = [loc EXCEPT !.ti3c_pp_min = pp, !.ti2c_od_min = od]
              /\ divByZero' = (divByZero \/ o3 # "defined" \/ o2 # "defined")
              /\ IF busType # I3C_PURE_I3C_BUS /\ WGt(od, U(TSM_MIN))
                 THEN CtrlEnds("ERROR")
                 ELSE pc' = "ctrl_scl_high" /\ UNCHANGED status
              /\ UNCHANGED <<args, pConfig, pTgtConfig>>

\* I3C SCL high level (push-pull & open drain) and the first scllpp
CtrlSclHigh ==
  /\ pc = "ctrl_scl_high"
  /\ \E r \in {IF busType = I3C_PURE_I3C_BUS
               THEN SclPure(loc.ti3c_pp_min, dutyCycle, loc.ti3cclk)
               ELSE SclMixed(loc.ti3c_pp_min, loc.ti3cclk)} :
       loc' = [loc EXCEPT !.sclhi3c = r.sclhi3c, !.scllpp0 = r.scllpp, !.scllpp = r.scllpp]
  /\ pc' = "ctrl_correction"
  /\ UNCHANGED <<args, pConfig, pTgtConfig, status, divByZero>>

\* The two checks of scllpp against ideal_scllpp
CtrlFrequencyCorrection ==
  /\ pc = "ctrl_correction"
  /\ \E r \in {FrequencyCorrection(loc.scllpp, loc.sclhi3c, loc.ti3c_pp_min, loc.ti3cclk)} :
       loc' = [loc EXCEPT !.scllpp = r.scllpp, !.dec = r.dec, !.inc = r.inc]
  /\ pc' = "ctrl_open_drain"
  /\ UNCHANGED <<args, pConfig, pTgtConfig, status, divByZero>>

\* SCL open-drain low and I2C SCL high
CtrlOpenDrain ==
  /\ pc = "ctrl_open_drain"
  /\ \E r \in {IF busType = I3C_PURE_I3C_BUS
               THEN OpenDrainPure(loc.scllpp, loc.ti3c_pp_min, loc.ti3cclk)
               ELSE OpenDrainMixed(loc.ti2c_od_min, dutyCycle, loc.ti3cclk)} :
       loc' = [loc EXCEPT !.scllod = r.scllod, !.sclhi2c = r.sclhi2c]
  /\ pc' = "ctrl_free"
  /\ UNCHANGED <<args, pConfig, pTgtConfig, status, divByZero>>

\* Clock After Start computation, hold time, 1 microsecond reference
CtrlFreeHoldOneUs ==
  /\ pc = "ctrl_free"
  /\ \E o \in Outcomes(IsZero(FreeDivisor(loc.ti3cclk))) :
       IF o = "trap" THEN Trap("ctrl_trap")
       ELSE \E f \in {IF o = "defined" THEN BusFree(busType, loc.scllod, loc.ti3cclk)
                      ELSE DivZeroValue(o)} :
              /\ loc' = [loc EXCEPT !.free = f, !.sdahold = SdaHold(loc.ti3cclk),
                                    !.oneus = OneUs(loc.ti3cclk)]
              /\ divByZero' = (divByZero \/ o # "defined")
              /\ pc' = "ctrl_gate"
              /\ UNCHANGED <<args, pConfig, pTgtConfig, status>>

\* The record after the stores of the success branch.
CtrlStores(l) ==
  [SCLPPLowDuration |-> Trunc8(l.scllpp), SCLI3CHighDuration |-> Trunc8(l.sclhi3c),
   SCLODLowDuration |-> Trunc8(l.scllod), SCLI2CHighDuration |-> Trunc8(l.sclhi2c),
   BusFreeDuration |-> Trunc8(l.free), BusIdleDuration |-> Trunc8(l.oneus),
   SDAHoldTime |-> l.sdahold * (2^I3C_TIMINGR1_SDA_HD_Pos)]

\* The range gate, the stores and the return
CtrlRangeGate ==
  /\ pc = "ctrl_gate"
  /\ IF RangeGate(loc.scllpp, loc.sclhi3c, loc.scllod, loc.sclhi2c, loc.free, loc.oneus)
     THEN CtrlEnds("ERROR") /\ UNCHANGED pConfig
     ELSE CtrlEnds("SUCCESS") /\ pConfig' = CtrlStores(loc)
  /\ UNCHANGED <<args, pTgtConfig, loc, divByZero>>

I3C_CtrlTimingComputation ==
  \/ CtrlVerifyParameters
  \/ CtrlClockPeriod
  \/ CtrlBusPeriods
  \/ CtrlSclHigh
  \/ CtrlFrequencyCorrection
  \/ CtrlOpenDrain
  \/ CtrlFreeHoldOneUs
  \/ CtrlRangeGate

\* ------------------------------------------------------------------------
\* I3C_TgtTimingComputation
\* ------------------------------------------------------------------------
\* Verify Parameters; Period Clock source
TgtClockPeriod ==
  /\ pc = "ready"
  /\ IF IsZero(clockSrcFreq)
     THEN status' = "ERROR" /\ pc' = "tgt_return" /\ UNCHANGED loc
     ELSE \E t \in {ClockPeriod(clockSrcFreq)} :
            /\ loc' = [loc EXCEPT !.ti3cclk = t]
            /\ IF IsZero(t)
               THEN status' = "ERROR" /\ pc' = "tgt_return"
               ELSE status' = "SUCCESS" /\ pc' = "tgt_oneus"
  /\ UNCHANGED <<args, pConfig, pTgtConfig, divByZero>>

TgtStores(l) == [BusAvailableDuration |-> Trunc8(l.oneus)]

\* 1 microsecond reference; Bus available time configuration
TgtOneUs ==
  /\ pc = "tgt_oneus"
  /\ \E u \in {OneUs(loc.ti3cclk)} :
       /\ loc' = [loc EXCEPT !.oneus = u]
       /\ pTgtConfig' = TgtStores(loc')
  /\ pc' = "tgt_return"
  /\ UNCHANGED <<args, pConfig, status, divByZero>>

I3C_TgtTimingComputation == TgtClockPeriod \/ TgtOneUs

Next == I3C_CtrlTimingComputation \/ I3C_TgtTimingComputation

Spec == Init /\ [][Next]_vars

\* ------------------------------------------------------------------------
\* Properties
\* ------------------------------------------------------------------------
\* Exact (unbounded) arithmetic for stating the properties.
RoundHalfUp(n, d) == WDiv(WAdd(n, WDiv(d, U(2))), d)
WScale(k, w) == WNorm(k * w[1], k * w[2])
AbsDiff(a, b) == IF WLt(a, b) THEN WSub(b, a) ELSE WSub(a, b)
Fits8(w) == w[1] = 0 /\ w[2] <= 255

CtrlReturned == pc = "ctrl_return"
CtrlSuccess == pc = "ctrl_return" /\ status = "SUCCESS"
TgtSuccess == pc = "tgt_return" /\ status = "SUCCESS"
InCtrl == pc \notin {"ready", "tgt_oneus", "tgt_return"}

\* The six cycle counts of the locals l all fit 8 bits and the record c
\* holds exactly them.
HoldsCounts(c, l) ==
  /\ Fits8(l.scllpp) /\ Fits8(l.sclhi3c) /\ Fits8(l.scllod)
  /\ Fits8(l.sclhi2c) /\ Fits8(l.free) /\ Fits8(l.oneus)
  /\ U(c.SCLPPLowDuration) = l.scllpp
  /\ U(c.SCLI3CHighDuration) = l.sclhi3c
  /\ U(c.SCLODLowDuration) = l.scllod
  /\ U(c.SCLI2CHighDuration) = l.sclhi2c
  /\ U(c.BusFreeDuration) = l.free
  /\ U(c.BusIdleDuration) = l.oneus

\* C1: I3C_CtrlTimingComputation returns SUCCESS only if each of the six
\* computed cycle counts is <= 255, and then the six output fields hold
\* exactly those values; no other step of the call, in particular none that
\* ends in ERROR, writes any field of the output record.
C1_SuccessOnlyInRangeErrorWritesNothing ==
  [][/\ (pc' = "ctrl_return" /\ status' = "SUCCESS") => HoldsCounts(pConfig', loc')
     /\ ~(pc' = "ctrl_return" /\ status' = "SUCCESS") => pConfig' = pConfig]_vars

\* C1 witness: the call returned ERROR from the range gate with oneus alone
\* over 8 bits, the record still holding what it held before.
C1_Witness ==
  /\ CtrlReturned /\ status = "ERROR"
  /\ ~Fits8(loc.oneus) /\ Fits8(loc.scllpp) /\ Fits8(loc.sclhi3c) /\ Fits8(loc.scllod)
  /\ Fits8(loc.sclhi2c) /\ Fits8(loc.free)
  /\ pConfig = PriorCtrlConfig(0)

\* C2: on every successful pure-I3C call the realized push-pull period
\* (SCLPPLowDuration + SCLI3CHighDuration + 2) * period(clockSrcFreq) differs
\* from the ideal period(i3cFreq) by strictly less than period(clockSrcFreq).
C2_PushPullPeriodWithinOneCycle ==
  (CtrlSuccess /\ busType = I3C_PURE_I3C_BUS) =>
    WLt(AbsDiff(WScale(pConfig.SCLPPLowDuration + pConfig.SCLI3CHighDuration + 2,
                       Period64(clockSrcFreq)),
                Period64(i3cFreq)),
        Period64(clockSrcFreq))

\* C3: both entry points are total: once parameter validation has passed no
\* division is evaluated with a zero divisor and the call returns.  Stated
\* for the two documented bus types, which covers the pure-I3C call with
\* i2cFreq = 0 that the claim names.
C3_NoDivisionByZero ==
  busType \in {I3C_PURE_I3C_BUS, I3C_MIXED_BUS} => (~divByZero /\ status # "TRAP")

\* C4: dutyCycle > 50 makes I3C_CtrlTimingComputation return ERROR, for any
\* frequencies and any busType, without a division by zero on the way.
C4_DutyCycleOver50IsError ==
  (InCtrl /\ dutyCycle > 50) =>
    /\ ~divByZero
    /\ status # "TRAP"
    /\ CtrlReturned => status = "ERROR"

\* C5: clockSrcFreq == 0 makes both functions return ERROR, for every other
\* argument, the zero check coming before the division by clockSrcFreq.
C5_ZeroClockIsError ==
  IsZero(clockSrcFreq) =>
    /\ ~divByZero
    /\ status # "TRAP"
    /\ pc \in {"ctrl_return", "tgt_return"} => status = "ERROR"

\* C6 as claimed: on every successful call BusIdleDuration (and for the
\* target BusAvailableDuration) equals round-half-up(10000000 / ClockPeriod) - 2.
C6_OneUsFromTenMillion ==
  /\ CtrlSuccess =>
       U(pConfig.BusIdleDuration + 2) = RoundHalfUp(U(10000000), Period64(clockSrcFreq))
  /\ TgtSuccess =>
       U(pTgtConfig.BusAvailableDuration + 2) = RoundHalfUp(U(10000000), Period64(clockSrcFreq))

\* C6 as amended: on every successful I3C_CtrlTimingComputation call
\* BusIdleDuration equals round-half-up(100000 / ClockPeriod) - 2, and
\* I3C_TgtTimingComputation computes its count oneus by the same formula
\* (modulo 2^32) and stores the low 8 bits of it in BusAvailableDuration.
C6_OneUsFromHundredThousand ==
  /\ CtrlSuccess =>
       U(pConfig.BusIdleDuration + 2) = RoundHalfUp(U(100000), Period64(clockSrcFreq))
  /\ TgtSuccess =>
       /\ U32Add(loc.oneus, U(2)) = RoundHalfUp(U(100000), Period64(clockSrcFreq))
       /\ pTgtConfig.BusAvailableDuration = loc.oneus[2] % 256

\* C6 witness: the controller call of 48 MHz, 12.5 MHz, pure bus has
\* returned SUCCESS with BusIdleDuration 46.
C6_Witness ==
  /\ CtrlSuccess /\ clockSrcFreq = U(48000000) /\ i3cFreq = U(12500000)
  /\ busType = I3C_PURE_I3C_BUS /\ pConfig.BusIdleDuration = 46

\* The untruncated one-microsecond count is in 0..255 exactly when the
\* rounded quotient q is in 2..257.
CountFits(q) == WGe(q, U(2)) /\ WLe(q, U(257))

\* C7: whenever I3C_TgtTimingComputation returns SUCCESS the written
\* BusAvailableDuration equals the untruncated count
\* DIV_ROUND_CLOSEST(100000, ClockPeriod) - 2 and that count is in 0..255;
\* whenever the count is outside 0..255 the call returns ERROR and writes
\* nothing.
C7_TgtCountInRangeOrError ==
  (pc = "tgt_return" /\ ~IsZero(clockSrcFreq) /\ ~IsZero(ClockPeriod(clockSrcFreq))) =>
    IF CountFits(RoundHalfUp(U(100000), ClockPeriod(clockSrcFreq)))
    THEN status = "SUCCESS" =>
           U(pTgtConfig.BusAvailableDuration + 2)
             = RoundHalfUp(U(100000), ClockPeriod(clockSrcFreq))
    ELSE /\ status = "ERROR"
         /\ \E k \in 0 .. MaxPriorFill : pTgtConfig = PriorTgtConfig(k)

\* Some cycle count n in 1..256 has 3200 <= n * t <= 4100.
SomeCountInWindow(t) ==
  \E n \in 1 .. 256 : WGe(WScale(n, t), U(TI3CH_MIN)) /\ WLe(WScale(n, t), U(TI3CH_OD_MAX))

\* C8: on every successful mixed-bus call the realized I3C SCL high duration
\* (SCLI3CHighDuration + 1) * ClockPeriod is <= 4100, and >= 3200 whenever
\* some cycle count satisfies both bounds.
C8_MixedHighWithinOpenDrainMax ==
  (CtrlSuccess /\ busType = I3C_MIXED_BUS) =>
    /\ WLe(WScale(pConfig.SCLI3CHighDuration + 1, Period64(clockSrcFreq)), U(TI3CH_OD_MAX))
    /\ SomeCountInWindow(Period64(clockSrcFreq)) =>
         WGe(WScale(pConfig.SCLI3CHighDuration + 1, Period64(clockSrcFreq)), U(TI3CH_MIN))

\* C9: on every successful mixed-bus call the realized open-drain low
\* duration (SCLODLowDuration + 1) * ClockPeriod is >= 50000 when the I2C
\* period is below 250000 and >= 130000 otherwise, and SCLI2CHighDuration is
\* the rounded remainder of the I2C period after that low duration.
C9_MixedOpenDrainLowFloor ==
  (CtrlSuccess /\ busType = I3C_MIXED_BUS) =>
    /\ WGe(WScale(pConfig.SCLODLowDuration + 1, Period64(clockSrcFreq)),
           IF WLt(Period64(i2cFreq), U(TFM_MIN)) THEN U(TFMPL_OD_MIN) ELSE U(TFML_OD_MIN))
    /\ U(pConfig.SCLI2CHighDuration + 1)
         = RoundHalfUp(WSub(Period64(i2cFreq),
                            WScale(pConfig.SCLODLowDuration + 1, Period64(clockSrcFreq))),
                       Period64(clockSrcFreq))

\* C10: the two checks of the frequency-accuracy correction never both fire
\* in one call, and the net adjustment of scllpp is -1, 0 or +1 (modulo 2^32).
C10_ChecksNeverBothFire ==
  /\ ~(loc.dec /\ loc.inc)
  /\ U32Sub(loc.scllpp, loc.scllpp0) =
       (IF loc.dec THEN <<B16 - 1, B16 - 1>> ELSE IF loc.inc THEN U(1) ELSE U(0))

\* C10 witness: a call returned SUCCESS after the overshoot check fired
\* and decremented scllpp.
C10_Witness == CtrlSuccess /\ loc.dec /\ U32Add(loc.scllpp, U(1)) = loc.scllpp0

====
